---- MODULE Spec2Model ----
(***************************************************************************)
(* Model of the JACK command line client                                   *)
(* (src/src/jack/clients/CommandLineClient.py): main() connects a TCP      *)
(* socket, starts the Receiver daemon thread and runs the cmd.Cmd          *)
(* interactive loop of CommandLineClient, whose default() sends each       *)
(* command on the socket.                                                  *)
(*                                                                         *)
(* Text is modelled as sequences of one-character strings.                 *)
(***************************************************************************)
EXTENDS Integers, Sequences, FiniteSets, TLC

\* ------------------------------------------------------------------ bounds
\* number of iterations of the interactive loop that are explored
MaxCmds == 1
\* number of bytes the peer sends that are explored
MaxIn == 3

\* ------------------------------------------------------------- characters
NL == "\n"
\* vertical tab (0x0b) and form feed (0x0c)
VT == ""
FF == "\f"
\* str.strip() / str.rstrip() without argument remove these (Python 2 str):
\* string.whitespace, '\t\n\x0b\x0c\r '
Whitespace == {" ", "\t", "\n", VT, FF, "\r"}
Digits == {"0", "1", "2", "3", "4", "5", "6", "7", "8", "9"}
\* cmd.Cmd.identchars = string.ascii_letters + string.digits + '_'
IdentChars ==
  {"a", "b", "c", "d", "e", "f", "g", "h", "i", "j", "k", "l", "m",
   "n", "o", "p", "q", "r", "s", "t", "u", "v", "w", "x", "y", "z",
   "A", "B", "C", "D", "E", "F", "G", "H", "I", "J", "K", "L", "M",
   "N", "O", "P", "Q", "R", "S", "T", "U", "V", "W", "X", "Y", "Z",
   "_"} \cup Digits

\* the command names and the end-of-file token of cmd.Cmd
HelpWord == <<"h", "e", "l", "p">>
EOFWord == <<"E", "O", "F">>
\* the do_* methods CommandLineClient has: it defines none, cmd.Cmd has do_help
DoMethods == {HelpWord}

\* --------------------------------------------------------- string helpers
RECURSIVE LStrip(_)
\* str.lstrip(): drop the leading whitespace
LStrip(s) ==
  IF s = <<>> THEN <<>>
  ELSE IF s[1] \in Whitespace THEN LStrip(Tail(s)) ELSE s

RECURSIVE RStrip(_)
\* str.rstrip(): drop the trailing whitespace
RStrip(s) ==
  IF s = <<>> THEN <<>>
  ELSE IF s[Len(s)] \in Whitespace THEN RStrip(SubSeq(s, 1, Len(s) - 1)) ELSE s

\* str.strip()
Strip(s) == RStrip(LStrip(s))

RECURSIVE IdentPrefixLen(_)
\* the while loop of cmd.Cmd.parseline: length of the leading identifier
IdentPrefixLen(s) ==
  IF s = <<>> THEN 0
  ELSE IF s[1] \in IdentChars THEN 1 + IdentPrefixLen(Tail(s)) ELSE 0

\* index of the first newline of s, 0 when there is none
RECURSIVE FirstNL(_)
FirstNL(s) ==
  IF s = <<>> THEN 0
  ELSE IF s[1] = NL THEN 1
  ELSE LET r == FirstNL(Tail(s)) IN IF r = 0 THEN 0 ELSE r + 1

\* ------------------------------------------------------- number <-> text
DigitVal(c) ==
  CASE c = "0" -> 0 [] c = "1" -> 1 [] c = "2" -> 2 [] c = "3" -> 3
    [] c = "4" -> 4 [] c = "5" -> 5 [] c = "6" -> 6 [] c = "7" -> 7
    [] c = "8" -> 8 [] c = "9" -> 9

DigitChar(d) ==
  CASE d = 0 -> "0" [] d = 1 -> "1" [] d = 2 -> "2" [] d = 3 -> "3"
    [] d = 4 -> "4" [] d = 5 -> "5" [] d = 6 -> "6" [] d = 7 -> "7"
    [] d = 8 -> "8" [] d = 9 -> "9"

\* the body of an integer literal once whitespace and sign are removed;
\* int() of Python 2 also skips whitespace between the sign and the digits
IntBody(s) ==
  LET t == Strip(s) IN
  IF t # <<>> /\ t[1] \in {"+", "-"} THEN LStrip(Tail(t)) ELSE t

\* int(s) succeeds: optional whitespace, optional sign, optional
\* whitespace, at least one digit, optional whitespace
IsIntLiteral(s) ==
  /\ IntBody(s) # <<>>
  /\ \A i \in 1..Len(IntBody(s)) : IntBody(s)[i] \in Digits

RECURSIVE DigitsValue(_)
DigitsValue(s) ==
  IF s = <<>> THEN 0
  ELSE 10 * DigitsValue(SubSeq(s, 1, Len(s) - 1)) + DigitVal(s[Len(s)])

\* int(s) for a string that is an integer literal
ParseInt(s) ==
  LET t == Strip(s) IN
  IF t[1] = "-" THEN 0 - DigitsValue(IntBody(s)) ELSE DigitsValue(IntBody(s))

RECURSIVE NatToStr(_)
NatToStr(n) ==
  IF n < 10 THEN <<DigitChar(n)>>
  ELSE Append(NatToStr(n \div 10), DigitChar(n % 10))

\* str(n) of an int
IntToStr(n) == IF n < 0 THEN <<"-">> \o NatToStr(0 - n) ELSE NatToStr(n)

\* ------------------------------------------------ cmd.Cmd (base class)
\* cmd.Cmd.parseline: (cmd, arg, line); none marks cmd = arg = None
ParseIdent(l) ==
  LET i == IdentPrefixLen(l) IN
  [none |-> FALSE, cmd |-> SubSeq(l, 1, i),
   arg |-> Strip(SubSeq(l, i + 1, Len(l))), line |-> l]

parseline(line) ==
  LET l == Strip(line) IN
  IF l = <<>> THEN [none |-> TRUE, cmd |-> <<>>, arg |-> <<>>, line |-> l]
  ELSE IF l[1] = "?" THEN ParseIdent(HelpWord \o <<" ">> \o Tail(l))
  ELSE IF l[1] = "!" THEN [none |-> TRUE, cmd |-> <<>>, arg |-> <<>>, line |-> l]
  ELSE ParseIdent(l)

\* what one command does: act is "default" (CommandLineClient.default is
\* called with data), "help" (cmd.Cmd.do_help is called with data) or
\* "nothing" (emptyline with no last command); last is the new lastcmd
RECURSIVE onecmd(_, _)
onecmd(line, lastcmd) ==
  LET p == parseline(line) IN
  IF p.line = <<>> THEN
    \* emptyline(): repeat the last non-empty command
    IF lastcmd # <<>> THEN onecmd(lastcmd, lastcmd)
    ELSE [act |-> "nothing", data |-> <<>>, last |-> lastcmd]
  ELSE IF p.none THEN [act |-> "default", data |-> p.line, last |-> lastcmd]
  ELSE
    LET last == IF p.line = EOFWord THEN <<>> ELSE p.line IN
    IF p.cmd = <<>> THEN [act |-> "default", data |-> p.line, last |-> last]
    ELSE IF p.cmd \in DoMethods THEN [act |-> "help", data |-> p.arg, last |-> last]
    ELSE [act |-> "default", data |-> p.line, last |-> last]

\* ----------------------------------------------------------------- inputs
Prog == <<"c">>
DefaultHost == <<"1", "2", "7", ".", "0", ".", "0", ".", "1">>
DefaultPort == 1300
\* sock.connect((host, port)) takes a port in 0..MaxPort
MaxPort == 65535
\* the command lines the program is started with (sys.argv)
ArgvSet ==
  { <<Prog>>,
    <<Prog, <<"h">>>>,
    <<Prog, <<"h">>, <<"8", "0">>>>,
    <<Prog, <<"h">>, <<"-", "1">>>>,
    <<Prog, <<"h">>, <<"x">>>> }
\* the lines typed at the prompt (raw_input() results, newline removed)
StdinLines ==
  { <<>>,
    <<"a">>,
    <<" ", "a", " ">>,
    HelpWord,
    <<"?">> }
\* the texts the peer sends, byte by byte (the first MaxIn bytes of one of
\* them): lines with and without text, with trailing blanks, empty lines,
\* and an unterminated rest
PeerTexts ==
  { <<"a", NL, NL, "a">>,
    <<NL, "a", NL, " ">>,
    <<" ", NL, "a", NL>>,
    <<"a", " ", NL, NL>>,
    <<"a", "a", NL, "a">>,
    <<NL, NL, "a", "a">> }

\* ------------------------------------------------------------------ state
VARIABLES
  argv,        \* sys.argv
  host, port,  \* locals of main
  mainPc,      \* position of the main thread: "parse", "connect", "banner",
               \* "construct", "start", "cmdloop", "crashed" (an exception
               \* has left main, the process is ending), "exited"
  mainExc,     \* the exception that ended main ("none" while it runs)
  sock,        \* main's socket object: 0 before socket.socket(), then 1
  sockState,   \* "new", "connected", "failed"
  sockOpen,    \* the process holds the socket's descriptor
  connectCalls,\* number of sock.connect calls
  peerAddr,    \* the (host, port) given to sock.connect, <<>> before
  banner,      \* the banner main printed, <<>> when none yet
  receiverSock,\* Receiver.sock (0: no Receiver object yet)
  senderSock,  \* CommandLineClient.sock (0: no sender object yet)
  recvPc,      \* the Receiver thread: "notstarted", "started" (run() has
               \* not opened the file yet), "running", "done", "crashed"
  fOpen,       \* the file object of sock.makefile() is open
  rbuf,        \* bytes buffered in the file object
  kbuf,        \* bytes in the kernel's receive queue of the socket
  arrived,     \* every byte that arrived from the peer so far (history)
  peerClosed,  \* the peer's FIN arrived: end of the inbound stream
  sockErr,     \* the peer's RST arrived: the connection is gone
  errPending,  \* the error of the reset is pending on the socket: the next
               \* send or recv that meets it raises it and takes it
  delivered,   \* the messages the Receiver printed, in print order
  lastcmd,     \* cmd.Cmd.lastcmd
  stdinEOF,    \* raw_input has met end-of-file on standard input
  stdinClosed, \* standard input stays at end-of-file (a closed pipe or a
               \* file; a terminal is read again after Ctrl-D)
  iters,       \* number of iterations of the interactive loop so far
  lastIter,    \* what the most recent iteration of the loop did
  outStream,   \* the bytes the OS accepted for the peer, in order
  sentText,    \* the bytes of the default() calls that returned normally
  urlPath,     \* web/ffad/urls.py: the request path being resolved
  urlView,     \* the view chosen for it ("unresolved" before resolution)
  urlDraftId   \* the draft_id keyword argument captured for the view

vars ==
  <<argv, host, port, mainPc, mainExc, sock, sockState, sockOpen,
    connectCalls, banner, receiverSock, senderSock, recvPc, fOpen, rbuf,
    kbuf, arrived, peerClosed, sockErr, errPending, delivered, lastcmd,
    stdinEOF,
    stdinClosed, iters, lastIter, outStream, sentText, peerAddr, urlPath,
    urlView, urlDraftId>>

mainVars == <<argv, host, port, mainPc, mainExc, sock, connectCalls, banner,
              receiverSock, senderSock, peerAddr>>
urlVars == <<urlPath, urlView, urlDraftId>>
loopVars == <<lastcmd, stdinEOF, stdinClosed, iters, lastIter, outStream,
              sentText>>
recvVars == <<recvPc, fOpen, rbuf, delivered>>
netVars == <<kbuf, arrived, peerClosed, sockErr, errPending>>

\* variant of Alive for a Receiver that is not a daemon thread: it goes on
\* after main has ended
AliveNonDaemon == TRUE

\* the process runs until it exits after main has ended: the Receiver is a
\* daemon thread, it runs as long as the process does
Alive == mainPc # "exited"
ReceiverEnded == recvPc \in {"done", "crashed"}

\* lastIter before the first iteration
NoIter ==
  [eof |-> FALSE, line |-> <<>>, act |-> "none", called |-> FALSE,
   data |-> <<>>, n |-> 0, ok |-> TRUE, afterEOF |-> FALSE,
   peerClosed |-> FALSE, readerEnded |-> FALSE]

\* the client process right after it is started
ClientInit ==
  /\ argv \in ArgvSet
  /\ host = <<>> /\ port = 0
  /\ mainPc = "parse" /\ mainExc = "none"
  /\ sock = 0 /\ sockState = "new" /\ sockOpen = FALSE
  /\ connectCalls = 0
  /\ banner = <<>>
  /\ receiverSock = 0 /\ senderSock = 0
  /\ recvPc = "notstarted" /\ fOpen = FALSE
  /\ rbuf = <<>> /\ kbuf = <<>> /\ arrived = <<>>
  /\ peerClosed = FALSE /\ sockErr = FALSE /\ errPending = FALSE
  /\ delivered = <<>>
  /\ lastcmd = <<>>
  /\ stdinEOF = FALSE /\ stdinClosed = FALSE
  /\ iters = 0
  /\ lastIter = NoIter
  /\ outStream = <<>>
  /\ sentText = <<>>
  /\ peerAddr = <<>>

\* no request is being resolved
UrlIdle ==
  /\ urlPath = <<>>
  /\ urlView = "unresolved"
  /\ urlDraftId = <<>>

Init == ClientInit /\ UrlIdle

\* ------------------------------------------------------------------- main
\* an exception leaves main; the traceback and the exit of the process
\* follow (ProcessExit), the other thread runs meanwhile
Raise(exc) ==
  /\ mainPc' = "crashed"
  /\ mainExc' = exc

\* main() has ended with an exception: the traceback is printed, the
\* interpreter shuts down, the process exits with its daemon thread and the
\* OS releases the socket
ProcessExit ==
  /\ mainPc = "crashed"
  /\ mainPc' = "exited"
  /\ sockOpen' = FALSE
  /\ UNCHANGED <<argv, host, port, mainExc, sock, sockState, connectCalls,
                 banner, receiverSock, senderSock, peerAddr>>
  /\ UNCHANGED <<loopVars, recvVars, netVars, urlVars>>

\* variant of ParseArgs that takes the host from the command line only
\* when a port is given too
ParseArgsBothOrNone ==
  /\ mainPc = "parse"
  /\ host' = IF Len(argv) > 2 THEN argv[2] ELSE DefaultHost
  /\ IF Len(argv) > 2 /\ ~IsIntLiteral(argv[3])
       THEN /\ Raise("ValueError")
            /\ UNCHANGED <<port, sockOpen>>
       ELSE /\ port' = IF Len(argv) > 2 THEN ParseInt(argv[3]) ELSE DefaultPort
            /\ mainPc' = "connect"
            /\ UNCHANGED <<mainExc, sockOpen>>
  /\ UNCHANGED <<argv, sock, sockState, connectCalls, banner, receiverSock,
                 senderSock, peerAddr>>
  /\ UNCHANGED <<loopVars, recvVars, netVars, urlVars>>

\* host = argv[1] if len(argv) > 1 else '127.0.0.1'
\* port = int(argv[2]) if len(argv) > 2 else 1300
\* (Python's argv[k] is argv[k + 1] here)
ParseArgs ==
  /\ mainPc = "parse"
  /\ host' = IF Len(argv) > 1 THEN argv[2] ELSE DefaultHost
  /\ IF Len(argv) > 2 /\ ~IsIntLiteral(argv[3])
       THEN /\ Raise("ValueError")
            /\ UNCHANGED <<port, sockOpen>>
       ELSE /\ port' = IF Len(argv) > 2 THEN ParseInt(argv[3]) ELSE DefaultPort
            /\ mainPc' = "connect"
            /\ UNCHANGED <<mainExc, sockOpen>>
  /\ UNCHANGED <<argv, sock, sockState, connectCalls, banner, receiverSock,
                 senderSock, peerAddr>>
  /\ UNCHANGED <<loopVars, recvVars, netVars, urlVars>>

\* variant of Connect that swallows the connect error and goes on
ConnectIgnoringFailure ==
  /\ mainPc = "connect"
  /\ sock' = 1
  /\ connectCalls' = connectCalls + 1
  /\ peerAddr' = <<host, port>>
  /\ sockOpen' = TRUE
  /\ \E st \in {"connected", "failed"} :
       /\ sockState' = st
       /\ mainPc' = "banner"
       /\ UNCHANGED mainExc
  /\ UNCHANGED <<argv, host, port, banner, receiverSock, senderSock>>
  /\ UNCHANGED <<loopVars, recvVars, netVars, urlVars>>

\* sock = socket.socket(...); sock.connect((host, port)).  connect first
\* resolves the host name (socket.gaierror, a socket.error, when it cannot),
\* then checks the port (OverflowError outside 0..65535, nothing is
\* attempted), then makes the connection or raises socket.error
Connect ==
  /\ mainPc = "connect"
  /\ sock' = 1
  /\ sockOpen' = TRUE
  /\ connectCalls' = connectCalls + 1
  /\ peerAddr' = <<host, port>>
  /\ \/ /\ sockState' = "failed"
        /\ Raise("socket.error")
     \/ /\ port \notin 0..MaxPort
        /\ sockState' = sockState
        /\ Raise("OverflowError")
     \/ /\ port \in 0..MaxPort
        /\ sockState' = "connected"
        /\ mainPc' = "banner"
        /\ UNCHANGED mainExc
  /\ UNCHANGED <<argv, host, port, banner, receiverSock, senderSock>>
  /\ UNCHANGED <<loopVars, recvVars, netVars, urlVars>>

\* print '==== Connected to', host + ':' + str(port), '===='
PrintBanner ==
  /\ mainPc = "banner"
  /\ banner' = host \o <<":">> \o IntToStr(port)
  /\ mainPc' = "construct"
  /\ UNCHANGED <<argv, host, port, mainExc, sock, sockState, sockOpen,
                 connectCalls, receiverSock, senderSock, peerAddr>>
  /\ UNCHANGED <<loopVars, recvVars, netVars, urlVars>>

\* variant of Construct after which main enters the interactive loop
\* without having started the Receiver
ConstructSkippingStart ==
  /\ mainPc = "construct"
  /\ receiverSock' = sock
  /\ senderSock' = sock
  /\ mainPc' = "cmdloop"
  /\ UNCHANGED <<argv, host, port, mainExc, sock, sockState, sockOpen,
                 connectCalls, banner, peerAddr>>
  /\ UNCHANGED <<loopVars, recvVars, netVars, urlVars>>

\* variant of Construct that gives the sender a socket object of its own
ConstructFreshSenderSocket ==
  /\ mainPc = "construct"
  /\ receiverSock' = sock
  /\ senderSock' = sock + 1
  /\ mainPc' = "start"
  /\ UNCHANGED <<argv, host, port, mainExc, sock, sockState, sockOpen,
                 connectCalls, banner, peerAddr>>
  /\ UNCHANGED <<loopVars, recvVars, netVars, urlVars>>

\* receiver = Receiver(sock); sender = CommandLineClient(sock)
Construct ==
  /\ mainPc = "construct"
  /\ receiverSock' = sock
  /\ senderSock' = sock
  /\ mainPc' = "start"
  /\ UNCHANGED <<argv, host, port, mainExc, sock, sockState, sockOpen,
                 connectCalls, banner, peerAddr>>
  /\ UNCHANGED <<loopVars, recvVars, netVars, urlVars>>

\* receiver.start(), first half: the thread is created and begins; main
\* waits inside start() while the new thread already runs
StartReceiver ==
  /\ mainPc = "start"
  /\ recvPc = "notstarted"
  /\ recvPc' = "started"
  /\ UNCHANGED mainVars
  /\ UNCHANGED <<sockState, sockOpen, loopVars, fOpen, rbuf, delivered,
                 netVars, urlVars>>

\* receiver.start(), second half: start() returns in main, however far the
\* Receiver thread has got, and main goes on to sender.cmdloop()
StartReturn ==
  /\ mainPc = "start"
  /\ recvPc # "notstarted"
  /\ mainPc' = "cmdloop"
  /\ UNCHANGED <<argv, host, port, mainExc, sock, sockState, sockOpen,
                 connectCalls, banner, receiverSock, senderSock, peerAddr>>
  /\ UNCHANGED <<loopVars, recvVars, netVars, urlVars>>

\* ------------------------------------------------------- interactive loop
\* socket.send(data) on a connected socket: the possible results.  After a
\* reset it raises socket.error (the pending error, which it takes, or
\* EPIPE); otherwise the kernel accepts between one and all of the bytes
\* and send returns that count.  A FIN from the peer alone does not make
\* send fail.
SendOutcomes(data) ==
  IF sockErr THEN {[n |-> 0, ok |-> FALSE]}
  ELSE {[n |-> k, ok |-> TRUE] : k \in 1..Len(data)}

\* CommandLineClient.default(line): self.sock.send(line + '\n')
\* the bytes handed to socket.send
default(line) == line \o <<NL>>

\* the record of one iteration: the input (eof, or the typed line), what
\* onecmd did with it (act, data), the result of the send if default was
\* called (n bytes accepted, ok), and what held when the iteration began
IterRecord(eof, line, r, called, n, ok) ==
  [eof |-> eof, line |-> line, act |-> r.act, called |-> called,
   data |-> r.data, n |-> n, ok |-> ok, afterEOF |-> stdinEOF,
   peerClosed |-> peerClosed, readerEnded |-> ReceiverEnded]

\* one iteration of cmd.Cmd.cmdloop (sender.cmdloop()): raw_input, with
\* EOFError turned into the line 'EOF', then precmd, onecmd, postcmd.
\* default() and do_help() return None, so the loop never stops by itself.
\* End-of-file lasts on a closed pipe or a file; on a terminal the next
\* raw_input reads the terminal again.
CmdLoopStep ==
  /\ mainPc = "cmdloop"
  /\ iters < MaxCmds
  /\ iters' = iters + 1
  /\ \E eof \in (IF stdinClosed THEN {TRUE} ELSE BOOLEAN) :
     \E typed \in (IF eof THEN {<<>>} ELSE StdinLines) :
     \E closed \in (IF ~eof THEN {FALSE}
                    ELSE IF stdinClosed THEN {TRUE} ELSE BOOLEAN) :
       LET line == IF eof THEN EOFWord ELSE typed
           r == onecmd(line, lastcmd)
       IN
       /\ stdinEOF' = (stdinEOF \/ eof)
       /\ stdinClosed' = closed
       /\ lastcmd' = r.last
       /\ errPending' = (errPending /\ r.act # "default")
       /\ IF r.act = "default" THEN
            \E o \in SendOutcomes(default(r.data)) :
              /\ lastIter' = IterRecord(eof, typed, r, TRUE, o.n, o.ok)
              /\ outStream' = outStream \o SubSeq(default(r.data), 1, o.n)
              /\ IF o.ok THEN /\ sentText' = sentText \o default(r.data)
                              /\ UNCHANGED <<mainPc, mainExc, sockOpen>>
                         ELSE /\ sentText' = sentText
                              /\ UNCHANGED sockOpen
                              /\ Raise("socket.error")
          ELSE
            \* do_help prints the help text, emptyline does nothing
            /\ lastIter' = IterRecord(eof, typed, r, FALSE, 0, TRUE)
            /\ UNCHANGED <<outStream, sentText, mainPc, mainExc, sockOpen>>
  /\ UNCHANGED <<argv, host, port, sock, sockState, connectCalls, banner,
                 receiverSock, senderSock, peerAddr>>
  /\ UNCHANGED <<recvVars, kbuf, arrived, peerClosed, sockErr, urlVars>>

\* --------------------------------------------------------------- Receiver
\* variant of PrintMessage that shows the newest message first
PrintMessageNewestFirst(out, message) == <<RStrip(message)>> \o out

\* print '\r>>>>', message.rstrip(): the message text that is printed
PrintMessage(out, message) == Append(out, RStrip(message))

\* the first step of run(), in the Receiver thread:
\* with contextlib.closing(self.sock.makefile()) as f
RecvOpen ==
  /\ Alive /\ recvPc = "started"
  /\ recvPc' = "running"
  /\ fOpen' = TRUE
  /\ UNCHANGED <<rbuf, delivered, netVars>>
  /\ UNCHANGED <<mainVars, sockState, sockOpen, loopVars, urlVars>>

\* readline of the file object finds no complete line in its buffer and
\* calls recv, which returns the bytes the kernel has queued
RecvFill ==
  /\ Alive /\ recvPc = "running"
  /\ FirstNL(rbuf) = 0
  /\ kbuf # <<>>
  /\ rbuf' = rbuf \o kbuf
  /\ kbuf' = <<>>
  /\ UNCHANGED <<recvPc, fOpen, delivered, arrived, peerClosed, sockErr,
                 errPending>>
  /\ UNCHANGED <<mainVars, sockState, sockOpen, loopVars, urlVars>>

\* variant of RecvDeliver in which the Receiver thread also writes to the
\* socket: it acknowledges each message with a newline
RecvDeliverEchoing ==
  /\ Alive /\ recvPc = "running"
  /\ FirstNL(rbuf) > 0
  /\ delivered' = PrintMessage(delivered, SubSeq(rbuf, 1, FirstNL(rbuf)))
  /\ rbuf' = SubSeq(rbuf, FirstNL(rbuf) + 1, Len(rbuf))
  /\ outStream' = Append(outStream, NL)
  /\ UNCHANGED <<recvPc, fOpen, netVars>>
  /\ UNCHANGED <<mainVars, sockState, sockOpen, lastcmd, stdinEOF,
                 stdinClosed, iters, lastIter, sentText, urlVars>>

\* variant of RecvDeliver that does not print a line made of a newline only
RecvDeliverSkippingEmpty ==
  /\ Alive /\ recvPc = "running"
  /\ FirstNL(rbuf) > 0
  /\ delivered' = IF FirstNL(rbuf) = 1 THEN delivered
                  ELSE PrintMessage(delivered, SubSeq(rbuf, 1, FirstNL(rbuf)))
  /\ rbuf' = SubSeq(rbuf, FirstNL(rbuf) + 1, Len(rbuf))
  /\ UNCHANGED <<recvPc, fOpen, netVars>>
  /\ UNCHANGED <<mainVars, sockState, sockOpen, loopVars, urlVars>>

\* for message in f: the next line of the buffer, newline included, is
\* the message; the body prints it
RecvDeliver ==
  /\ Alive /\ recvPc = "running"
  /\ FirstNL(rbuf) > 0
  /\ delivered' = PrintMessage(delivered, SubSeq(rbuf, 1, FirstNL(rbuf)))
  /\ rbuf' = SubSeq(rbuf, FirstNL(rbuf) + 1, Len(rbuf))
  /\ UNCHANGED <<recvPc, fOpen, netVars>>
  /\ UNCHANGED <<mainVars, sockState, sockOpen, loopVars, urlVars>>

\* variant of RecvEOF that ends the loop at end of stream and drops an
\* unterminated last line
RecvEOFDiscardingPartial ==
  /\ Alive /\ recvPc = "running"
  /\ FirstNL(rbuf) = 0
  /\ kbuf = <<>>
  /\ peerClosed \/ (sockErr /\ ~errPending)
  /\ recvPc' = "done"
  /\ fOpen' = FALSE
  /\ rbuf' = <<>>
  /\ UNCHANGED <<delivered, netVars>>
  /\ UNCHANGED <<mainVars, sockState, sockOpen, loopVars, urlVars>>

\* recv returns '' (end of stream): the queue is empty and the FIN has
\* arrived (a reset that followed does not matter), or the connection was
\* reset and a failed send has already taken the pending error.  readline
\* returns what is buffered; an empty result ends the iteration and
\* contextlib.closing closes f (the file object only: the socket stays open)
RecvEOF ==
  /\ Alive /\ recvPc = "running"
  /\ FirstNL(rbuf) = 0
  /\ kbuf = <<>>
  /\ peerClosed \/ (sockErr /\ ~errPending)
  /\ IF rbuf # <<>>
       THEN /\ delivered' = PrintMessage(delivered, rbuf)
            /\ rbuf' = <<>>
            /\ UNCHANGED <<recvPc, fOpen>>
       ELSE /\ recvPc' = "done"
            /\ fOpen' = FALSE
            /\ UNCHANGED <<delivered, rbuf>>
  /\ UNCHANGED netVars
  /\ UNCHANGED <<mainVars, sockState, sockOpen, loopVars, urlVars>>

\* recv raises socket.error: the queue is empty, no FIN has arrived and the
\* error of a reset is pending; recv takes it.  The exception leaves run()
\* through the with block, which closes f; the thread ends with a
\* traceback, the bytes readline had collected are lost
RecvError ==
  /\ Alive /\ recvPc = "running"
  /\ FirstNL(rbuf) = 0
  /\ kbuf = <<>>
  /\ errPending /\ ~peerClosed
  /\ errPending' = FALSE
  /\ recvPc' = "crashed"
  /\ fOpen' = FALSE
  /\ rbuf' = <<>>
  /\ UNCHANGED <<delivered, kbuf, arrived, peerClosed, sockErr>>
  /\ UNCHANGED <<mainVars, sockState, sockOpen, loopVars, urlVars>>

\* ------------------------------------------------------------------- peer
\* the next byte of the peer's text arrives in the socket's receive queue
PeerSend ==
  /\ Alive /\ sockState = "connected"
  /\ ~peerClosed /\ ~sockErr
  /\ Len(arrived) < MaxIn
  /\ \E t \in PeerTexts :
       /\ Len(arrived) < Len(t)
       /\ SubSeq(t, 1, Len(arrived)) = arrived
       /\ kbuf' = Append(kbuf, t[Len(arrived) + 1])
       /\ arrived' = Append(arrived, t[Len(arrived) + 1])
  /\ UNCHANGED <<peerClosed, sockErr, errPending>>
  /\ UNCHANGED <<mainVars, sockState, sockOpen, loopVars, recvVars, urlVars>>

\* the peer closes its end: FIN
PeerClose ==
  /\ Alive /\ sockState = "connected"
  /\ ~peerClosed /\ ~sockErr
  /\ peerClosed' = TRUE
  /\ UNCHANGED <<kbuf, arrived, sockErr, errPending>>
  /\ UNCHANGED <<mainVars, sockState, sockOpen, loopVars, recvVars, urlVars>>

\* the connection is reset: RST (the peer aborts, or answers data sent
\* after it closed)
PeerReset ==
  /\ Alive /\ sockState = "connected"
  /\ ~sockErr
  /\ sockErr' = TRUE
  /\ errPending' = TRUE
  /\ UNCHANGED <<kbuf, arrived, peerClosed>>
  /\ UNCHANGED <<mainVars, sockState, sockOpen, loopVars, recvVars, urlVars>>

\* ---------------------------------------------------------- specification
Next ==
  \/ ParseArgs
  \/ Connect
  \/ PrintBanner
  \/ Construct
  \/ StartReceiver
  \/ StartReturn
  \/ CmdLoopStep
  \/ ProcessExit
  \/ RecvOpen
  \/ RecvFill
  \/ RecvDeliver
  \/ RecvEOF
  \/ RecvError
  \/ PeerSend
  \/ PeerClose
  \/ PeerReset

Spec == Init /\ [][Next]_vars

TypeOK ==
  /\ mainPc \in {"parse", "connect", "banner", "construct", "start",
                 "cmdloop", "crashed", "exited"}
  /\ recvPc \in {"notstarted", "started", "running", "done", "crashed"}
  /\ iters \in 0..MaxCmds
  /\ Len(arrived) <= MaxIn

\* ------------------------------------------------- web/ffad/urls.py
\* longest run of digits in the request paths that are explored
MaxDigits == 2

RegisterWord == <<"r", "e", "g", "i", "s", "t", "e", "r">>
ManagerUpdatesWord ==
  <<"g", "e", "t", "_", "m", "a", "n", "a", "g", "e", "r", "_", "u", "p", "d", "a", "t", "e", "s">>
PlayerUpdatesWord ==
  <<"g", "e", "t", "_", "p", "l", "a", "y", "e", "r", "_", "u", "p", "d", "a", "t", "e", "s">>
GetTeamWord == <<"g", "e", "t", "_", "t", "e", "a", "m">>
PlaceBidWord == <<"p", "l", "a", "c", "e", "_", "b", "i", "d">>

\* urlpatterns, in order.  Every regex is "^", then the named group
\* (?P<draft_id>\d+) when group is TRUE, then the literal text lit, then "$"
UrlPatterns ==
  << [group |-> FALSE, lit |-> <<>>, view |-> "index"],
     [group |-> TRUE, lit |-> <<"/">>, view |-> "draft"],
     [group |-> TRUE, lit |-> <<"/">> \o RegisterWord, view |-> "register"],
     [group |-> TRUE, lit |-> <<"/">> \o ManagerUpdatesWord,
      view |-> "get_manager_updates"],
     [group |-> TRUE, lit |-> <<"/">> \o PlayerUpdatesWord,
      view |-> "get_player_updates"],
     [group |-> TRUE, lit |-> <<"/">> \o GetTeamWord, view |-> "get_team"],
     [group |-> TRUE, lit |-> <<"/">> \o PlaceBidWord, view |-> "place_bid"] >>

\* variant of AtEnd for a pattern written without its "$"
AtEndUnanchored(rest) == TRUE

\* "$" of a Python regex (no MULTILINE flag): at the end of the string, or
\* just before a newline that is the last character
AtEnd(rest) == rest = <<>> \/ rest = <<NL>>

\* lit occurs in s at position i, followed by "$"
LitThenEnd(s, i, lit) ==
  /\ i + Len(lit) - 1 <= Len(s)
  /\ SubSeq(s, i, i + Len(lit) - 1) = lit
  /\ AtEnd(SubSeq(s, i + Len(lit), Len(s)))

\* the lengths k for which \d+ can take the first k characters of s and
\* the rest of pattern p still matches (the regex engine backtracks over k)
GroupLengths(p, s) ==
  { k \in 1..Len(s) :
      /\ \A j \in 1..k : s[j] \in Digits
      /\ LitThenEnd(s, k + 1, p.lit) }

\* regex.search(path) finds a match ("^" anchors it at the start)
PatternMatch(p, s) ==
  IF p.group THEN GroupLengths(p, s) # {} ELSE LitThenEnd(s, 1, p.lit)

\* the draft_id keyword argument: \d+ is greedy, it keeps the longest run
CapturedId(p, s) ==
  IF p.group
    THEN LET k == CHOOSE k \in GroupLengths(p, s) :
                    \A m \in GroupLengths(p, s) : m <= k
         IN SubSeq(s, 1, k)
    ELSE <<>>

\* the resolver tries the patterns in order and takes the first match;
\* no match is Resolver404
resolve(s) ==
  LET hits == {i \in 1..Len(UrlPatterns) : PatternMatch(UrlPatterns[i], s)} IN
  IF hits = {} THEN [view |-> "Resolver404", draft_id |-> <<>>]
  ELSE LET i == CHOOSE i \in hits : \A j \in hits : i <= j IN
       [view |-> UrlPatterns[i].view, draft_id |-> CapturedId(UrlPatterns[i], s)]

\* the request paths that are explored: junk, digits, a route text, a tail
RECURSIVE DigitRuns(_)
DigitRuns(n) ==
  IF n = 0 THEN {<<>>}
  ELSE DigitRuns(n - 1) \cup
       {Append(d, c) : d \in DigitRuns(n - 1), c \in {"1", "2"}}

UrlRouteTexts ==
  { <<>>, <<"/">>,
    <<"/">> \o RegisterWord, <<"/">> \o ManagerUpdatesWord,
    <<"/">> \o PlayerUpdatesWord, <<"/">> \o GetTeamWord,
    <<"/">> \o PlaceBidWord,
    RegisterWord, <<"/">> \o RegisterWord \o <<"/">>,
    <<"/">> \o GetTeamWord \o <<"s">> }

UrlPaths ==
  { pre \o d \o t \o post :
      pre \in {<<>>, <<"x">>, <<"/">>},
      d \in DigitRuns(MaxDigits),
      t \in UrlRouteTexts,
      post \in {<<>>, <<NL>>, <<"x">>, <<NL, NL>>} }

clientVars == <<mainVars, sockState, sockOpen, loopVars, recvVars, netVars>>

\* a request for one of the paths arrives
InitUrls ==
  /\ ClientInit /\ argv = <<Prog>>
  /\ urlPath \in UrlPaths
  /\ urlView = "unresolved"
  /\ urlDraftId = <<>>

\* the resolver handles the request
Resolve ==
  /\ urlView = "unresolved"
  /\ urlView' = resolve(urlPath).view
  /\ urlDraftId' = resolve(urlPath).draft_id
  /\ UNCHANGED <<urlPath, clientVars>>

NextUrls == Resolve

SpecUrls == InitUrls /\ [][NextUrls]_vars

\* ------------------------------------------------------------- properties
\* the lines of a byte stream as the iteration over the file object yields
\* them: each ends with its newline, except a last unterminated one
RECURSIVE SplitLines(_)
SplitLines(s) ==
  IF s = <<>> THEN <<>>
  ELSE LET k == FirstNL(s) IN
       IF k = 0 THEN <<s>>
       ELSE <<SubSeq(s, 1, k)>> \o SplitLines(SubSeq(s, k + 1, Len(s)))

\* C1: every line read from standard input causes one send whose content
\* is exactly that line followed by a newline.
C1_EveryLineForwardedVerbatim ==
  (iters > 0 /\ ~lastIter.eof) =>
    /\ lastIter.called
    /\ default(lastIter.data) = lastIter.line \o <<NL>>

\* C2: the byte stream the peer observes is the lines passed to default(),
\* in call order, each once and each followed by one newline.
C2_PeerSeesLinesInOrder == outStream = sentText

\* C3: a send that returns without error has handed every byte of the line
\* and its newline to the OS.
C3_SuccessfulSendIsComplete ==
  (lastIter.called /\ lastIter.ok) => lastIter.n = Len(lastIter.data) + 1

\* C4: each delivered message is the corresponding newline-terminated line
\* of the inbound stream minus its single trailing newline.
C4_DeliveredIsLineMinusNewline ==
  \A i \in 1..Len(delivered) :
    LET L == SplitLines(arrived) IN
    (i <= Len(L) /\ L[i][Len(L[i])] = NL) =>
      delivered[i] = SubSeq(L[i], 1, Len(L[i]) - 1)

\* C5: messages are printed in wire arrival order: the k-th printed message
\* comes from the k-th line that arrived on the socket.
C5_DeliveredInArrivalOrder ==
  LET L == SplitLines(arrived) IN
  /\ Len(delivered) <= Len(L)
  /\ \A i \in 1..Len(delivered) : delivered[i] = RStrip(L[i])

\* C5 witness: the Receiver is in the middle of the stream (no close, no
\* reset): it has printed two different messages, each taken from a line
\* that ended with a newline, and the interactive loop has sent a line
C5_Witness ==
  /\ recvPc = "running" /\ ~peerClosed /\ ~sockErr
  /\ Len(delivered) >= 2
  /\ delivered[1] # delivered[2]
  /\ Len(arrived) >= 3
  /\ SubSeq(arrived, 1, 3) \in {<<"a", NL, NL>>, <<NL, "a", NL>>}
  /\ lastIter.called /\ lastIter.ok

\* C6: when standard input ends, the interactive loop stops: the iteration
\* that reads end-of-file sends nothing, and no iteration runs once
\* end-of-file has been read.
C6_EndOfInputStopsLoop ==
  /\ lastIter.eof => ~lastIter.called
  /\ ~lastIter.afterEOF

\* C7: a send invoked after the peer closed the socket never reports
\* success.
C7_SendAfterPeerCloseFails ==
  (lastIter.called /\ lastIter.peerClosed) => ~lastIter.ok

\* C8: a failed send does not end the session: the process stays alive and
\* the interactive loop is still at its prompt.
C8_FailedSendKeepsSession ==
  (lastIter.called /\ ~lastIter.ok) => mainPc = "cmdloop"

\* C9: once the reader has observed end-of-stream or a read error, no new
\* send is accepted.
C9_NoSendAfterReaderEnded ==
  (lastIter.called /\ lastIter.readerEnded) => ~lastIter.ok

\* C10: a failed connect aborts startup: whenever connect was called and
\* did not connect (a refused or unreachable address, or a port that is no
\* port number), main ends with the error connect raised, connect was
\* called once, no banner was printed, the receiver was not started, and
\* nothing was read from standard input or sent.
C10_FailedConnectAborts ==
  (connectCalls > 0 /\ sockState # "connected") =>
    /\ mainPc \in {"crashed", "exited"}
    /\ mainExc \in {"socket.error", "OverflowError"}
    /\ connectCalls = 1
    /\ banner = <<>>
    /\ recvPc = "notstarted" /\ receiverSock = 0 /\ senderSock = 0
    /\ iters = 0 /\ outStream = <<>> /\ ~stdinEOF

\* C10 witness: the connect attempt has failed
C10_Witness == sockState = "failed" /\ connectCalls = 1

\* the lines the file iteration has yielded so far: the lines of everything
\* that arrived except what still waits in the kernel queue and the file
\* buffer; when a read error ended the iteration, the unterminated bytes
\* readline had collected were dropped without being yielded
ConsumedLines ==
  LET L == SplitLines(SubSeq(arrived, 1, Len(arrived) - Len(rbuf) - Len(kbuf)))
  IN
  IF recvPc = "crashed" /\ L # <<>> /\ L[Len(L)][Len(L[Len(L)])] # NL
    THEN SubSeq(L, 1, Len(L) - 1)
    ELSE L

\* C11 as stated: whenever the peer has closed the socket in the middle of
\* a line, by an orderly close or by a reset, and the receive loop has
\* ended, the unterminated rest was printed as one last message: there is
\* one printed message per line of the stream, none is discarded.
C11_PartialNeverDiscarded ==
  (recvPc \in {"done", "crashed"} /\ (peerClosed \/ sockErr)) =>
    LET L == SplitLines(arrived) IN
    /\ Len(delivered) = Len(L)
    /\ L # <<>> => delivered[Len(L)] = RStrip(L[Len(L)])

\* C11 amended: when the read reports the end of the stream in the middle
\* of a line, the unterminated rest is printed as one last message, after
\* every earlier message and before the receive loop ends: at the normal
\* end of the loop there is one printed message per line of the stream,
\* the last one for the unterminated rest.  When the read fails with the
\* error of a reset instead, the loop ends without printing the rest: the
\* printed messages are the lines the iteration had yielded, in order.
C11_PartialLineFlushedAtEOF ==
  /\ recvPc = "done" =>
       LET L == SplitLines(arrived) IN
       /\ rbuf = <<>> /\ kbuf = <<>>
       /\ Len(delivered) = Len(L)
       /\ L # <<>> => delivered[Len(L)] = RStrip(L[Len(L)])
  /\ recvPc = "crashed" =>
       /\ sockErr /\ ~peerClosed
       /\ Len(delivered) = Len(ConsumedLines)
       /\ \A i \in 1..Len(delivered) : delivered[i] = RStrip(ConsumedLines[i])
       /\ \A i \in 1..Len(delivered) :
            ConsumedLines[i][Len(ConsumedLines[i])] = NL

\* C11 witness: the peer closed after an unterminated "a" that followed an
\* earlier line, and the receive loop has ended
C11_Witness ==
  /\ recvPc = "done" /\ peerClosed
  /\ Len(arrived) >= 2
  /\ arrived[Len(arrived)] = "a"
  /\ Len(delivered) >= 2
  /\ delivered[Len(delivered)] # <<>>

\* C12: a line of zero length is printed as one empty message: it is not
\* skipped (one message per consumed line) and the loop goes on; the loop
\* ends normally only at the end of the stream, when the connection is
\* closed or reset and every byte that arrived has been consumed.
C12_EmptyLineDelivered ==
  /\ recvPc \in {"running", "done"} =>
       /\ Len(delivered) = Len(ConsumedLines)
       /\ \A i \in 1..Len(ConsumedLines) :
            ConsumedLines[i] = <<NL>> => delivered[i] = <<>>
  /\ recvPc = "done" =>
       /\ peerClosed \/ sockErr
       /\ rbuf = <<>> /\ kbuf = <<>>

\* C12 witness: in the middle of the stream (no close, no reset) an empty
\* line was printed as an empty message and a later, non-empty line was
\* printed after it
C12_Witness ==
  /\ recvPc = "running" /\ ~peerClosed /\ ~sockErr
  /\ Len(arrived) >= 3
  /\ SubSeq(arrived, 1, 3) = <<NL, "a", NL>>
  /\ delivered = << <<>>, <<"a">> >>

\* port gets port 1300.
C15_AddressDefaults ==
  peerAddr # <<>> =>
    /\ Len(argv) = 1 =>
         peerAddr = << <<"1", "2", "7", ".", "0", ".", "0", ".", "1">>, 1300 >>
    /\ Len(argv) = 2 => peerAddr = <<argv[2], 1300>>
    /\ Len(argv) = 3 =>
         /\ peerAddr[1] = argv[2]
         /\ IntToStr(peerAddr[2]) = argv[3]

\* C15 witness: started with a host and no port, connect was called
C15_Witness ==
  /\ Len(argv) = 2
  /\ connectCalls = 1
  /\ peerAddr = << <<"h">>, 1300 >>

\* C16: one reader and one writer.  Bytes are taken from the socket only by
\* a step of the running Receiver thread, which leaves the sending side
\* untouched; bytes are put on the socket, and the interactive loop
\* advances, only by a step of main in the interactive loop, which leaves
\* the receiving side untouched; and there is never a second Receiver: a
\* Receiver that has ended stays ended.
C16_OneReaderOneWriter ==
  [][ /\ Len(kbuf') < Len(kbuf) =>
           /\ recvPc = "running"
           /\ UNCHANGED <<mainVars, loopVars>>
      /\ (outStream' # outStream \/ iters' # iters) =>
           /\ mainPc = "cmdloop"
           /\ UNCHANGED <<recvVars, kbuf>>
      /\ recvPc \in {"done", "crashed"} => recvPc' = recvPc ]_vars

\* C16 witness: reader and writer are active together: the Receiver is
\* running, has printed a message and has bytes waiting, while the
\* interactive loop has sent bytes and is still running
C16_Witness ==
  /\ recvPc = "running" /\ delivered # <<>> /\ kbuf # <<>>
  /\ mainPc = "cmdloop" /\ outStream # <<>>

\* C17: startup is ordered.  Nothing is printed by the Receiver, nothing is
\* sent and no line is read before the connect has succeeded and the banner
\* is printed; and whenever main is in the interactive loop, or has run an
\* iteration of it, the Receiver has been started.
C17_StartupOrdered ==
  /\ (delivered # <<>> \/ outStream # <<>> \/ iters > 0 \/ stdinEOF
        \/ recvPc # "notstarted") =>
       /\ sockState = "connected" /\ connectCalls = 1
       /\ banner # <<>>
  /\ (mainPc = "cmdloop" \/ iters > 0) => recvPc # "notstarted"

\* C17 witness: after startup a line was sent and a message was printed
C17_Witness ==
  /\ banner # <<>>
  /\ iters > 0 /\ lastIter.called /\ lastIter.ok
  /\ delivered # <<>>

\* C18: the socket is connected once and never replaced.  connect is called
\* at most once; the Receiver and the sender, once constructed, hold main's
\* socket object; and after the connect has succeeded no step changes the
\* socket object, its connection, the connect count or the two references,
\* whatever fails or ends.
C18_SocketNeverReassigned ==
  /\ [](/\ connectCalls <= 1
        /\ receiverSock # 0 => (receiverSock = sock /\ sock = 1)
        /\ senderSock # 0 => (senderSock = sock /\ sock = 1)
        /\ sockState = "connected" => connectCalls = 1)
  /\ [][ sockState = "connected" =>
           /\ UNCHANGED <<sock, sockState, connectCalls, peerAddr>>
           /\ receiverSock # 0 => UNCHANGED <<receiverSock, senderSock>> ]_vars

\* C18 witness: the Receiver has ended, the interactive loop has run after
\* that, and both still hold the one socket that was connected once
C18_Witness ==
  /\ ReceiverEnded
  /\ iters > 0 /\ lastIter.readerEnded
  /\ connectCalls = 1
  /\ receiverSock = 1 /\ senderSock = 1

\* the routing the claim describes, for a path s: the empty path is index,
\* digits and "/" is draft, digits, "/" and an action name is that action,
\* with the digits as draft_id; anything else has no route
RouteWords ==
  {RegisterWord, ManagerUpdatesWord, PlayerUpdatesWord, GetTeamWord,
   PlaceBidWord}
ViewOfWord(word) ==
  CASE word = RegisterWord -> "register"
    [] word = ManagerUpdatesWord -> "get_manager_updates"
    [] word = PlayerUpdatesWord -> "get_player_updates"
    [] word = GetTeamWord -> "get_team"
    [] word = PlaceBidWord -> "place_bid"
RECURSIVE LeadingDigits(_)
LeadingDigits(s) ==
  IF s = <<>> \/ s[1] \notin Digits THEN 0 ELSE 1 + LeadingDigits(Tail(s))
ExpectedRoute(s) ==
  LET k == LeadingDigits(s)
      rest == SubSeq(s, k + 1, Len(s))
      id == SubSeq(s, 1, k)
  IN
  IF s = <<>> THEN [view |-> "index", draft_id |-> <<>>]
  ELSE IF k >= 1 /\ rest = <<"/">> THEN [view |-> "draft", draft_id |-> id]
  ELSE IF k >= 1 /\ rest # <<>> /\ rest[1] = "/" /\ Tail(rest) \in RouteWords
    THEN [view |-> ViewOfWord(Tail(rest)), draft_id |-> id]
  ELSE [view |-> "Resolver404", draft_id |-> <<>>]

\* s without one trailing newline
DropFinalNewline(s) ==
  IF s # <<>> /\ s[Len(s)] = NL THEN SubSeq(s, 1, Len(s) - 1) ELSE s

\* the patterns that match the request path
MatchingPatterns ==
  {i \in 1..Len(UrlPatterns) : PatternMatch(UrlPatterns[i], urlPath)}

\* C19 as stated: at most one pattern matches a path, and the path is
\* routed as described: every path that is not the empty path, digits "/"
\* or digits "/" action matches no pattern.
C19_RoutingAsStated ==
  urlView # "unresolved" =>
    /\ Cardinality(MatchingPatterns) <= 1
    /\ [view |-> urlView, draft_id |-> urlDraftId] = ExpectedRoute(urlPath)

\* C19 amended: at most one pattern matches a path, and the path is routed
\* as described once one trailing newline, if there is one, is set aside:
\* a path that ends with a newline is routed like the path without it.
C19_RoutingUpToFinalNewline ==
  urlView # "unresolved" =>
    /\ Cardinality(MatchingPatterns) <= 1
    /\ [view |-> urlView, draft_id |-> urlDraftId] =
         ExpectedRoute(DropFinalNewline(urlPath))

\* C19 witness: a path with two digits, an action and a trailing newline
\* was routed to that action
C19_Witness ==
  /\ urlPath = <<"1", "2", "/">> \o PlaceBidWord \o <<NL>>
  /\ urlView = "place_bid"
  /\ urlDraftId = <<"1", "2">>

====
